---- MODULE Spec2Model ----
(***************************************************************************)
(* A model of Leaflet.FreeDraw 0.1.14 (leaflet.freedraw.js): the editor    *)
(* object L.FreeDraw, its options object L.FreeDraw.Options and its hull   *)
(* object L.FreeDraw.Hull.                                                 *)
(*                                                                         *)
(* Every method of the editor is an operator from editor state to editor   *)
(* state (a record with one field per property of the object), written in  *)
(* the order of the method's statements.  A thrown exception is the field  *)
(* raised: once it is set, the statements that follow in the method and in *)
(* its callers are skipped (Then).  What a call does to the outside is     *)
(* kept in two more fields of the record: notified, the calls it made of   *)
(* options.markersFn (the number of shapes each reported), and redrawn,    *)
(* the polygons it redrew.  One action per entry point: the public methods *)
(* and the event listeners the editor registers on the map, on the handles *)
(* and on the polygons.  An action runs its entry point on the editor      *)
(* (Editor) and keeps the properties of the object it leaves (Becomes).    *)
(*                                                                         *)
(* Geometry.  A container/layer point is a pair of integers (pixels).  A   *)
(* LatLng is modelled by its world pixel coordinate at the current zoom,   *)
(* so that the map's projections are translations: by the pixel origin     *)
(* (layer point <-> LatLng) and by the position of the map pane            *)
(* (container point <-> layer point), which moves when the map is panned.  *)
(***************************************************************************)
EXTENDS Integers, Sequences, FiniteSets, TLC

VARIABLES
    map,                    \* this.map is set (onAdd has run)
    mode,                   \* this.mode
    creating,               \* this.creating
    latLngs,                \* this.latLngs
    fromPoint,              \* this.fromPoint
    movingEdge,             \* this.movingEdge (a reference to a handle, or NoEdge)
    boundaryUpdateRequired, \* this.boundaryUpdateRequired
    edges,                  \* this.edges
    polygons,               \* the L.polygon objects created so far, by _leaflet_id
    options,                \* this.options
    permissions,            \* map.dragging / touchZoom / doubleClickZoom / scrollWheelZoom
    classList,              \* map._container.classList
    markerLayer,            \* this.markerLayer
    panePos                 \* the host map's pane position (changes when the map is panned)

vars == <<map, mode, creating, latLngs, fromPoint, movingEdge, boundaryUpdateRequired,
          edges, polygons, options, permissions, classList, markerLayer, panePos>>

----------------------------------------------------------------------------
(* Bounds of the model *)

\* the most points one trace accumulates from mousemove events
MaxTrace == 3

\* the most polygons created in one run
MaxPolygons == 2

----------------------------------------------------------------------------
(* Constants of the program *)

VIEW == 1
CREATE == 2
EDIT == 4
DELETE == 8
ALL == 15

RIGHT_CLICK == 2
LEFT_CLICK == 0

SmoothFactor == 5

Modes == 0..ALL

\* mode & bit
ModeBit(m, bit) == (m \div bit) % 2 = 1

\* mode ^ bit, for a single bit
ModeXor(m, bit) == IF ModeBit(m, bit) THEN m - bit ELSE m + bit

ModeClasses == {"mode-create", "mode-edit", "mode-delete", "mode-view"}

----------------------------------------------------------------------------
(* The host map: projections and rendering *)

\* the positions of the map pane: at rest, and after the user panned the map
PanePositions == {<<0, 0>>, <<20, 0>>}

PixelOrigin == <<100, 200>>

Plus(p, q) == <<p[1] + q[1], p[2] + q[2]>>
Minus(p, q) == <<p[1] - q[1], p[2] - q[2]>>

\* map.layerPointToLatLng
layerPointToLatLng(point) == Plus(point, PixelOrigin)

\* map.latLngToLayerPoint
latLngToLayerPoint(latLng) == Minus(latLng, PixelOrigin)

\* map.containerPointToLatLng: through containerPointToLayerPoint
containerPointToLatLng(point, pane) == layerPointToLatLng(Minus(point, pane))

\* map.latLngToContainerPoint
latLngToContainerPoint(latLng, pane) == Plus(latLngToLayerPoint(latLng), pane)

SqDist(p, q) == (p[1] - q[1]) * (p[1] - q[1]) + (p[2] - q[2]) * (p[2] - q[2])

\* The renderer's simplification of a projected ring: a point closer than the
\* tolerance to the last point kept is dropped; the first and the last point stay.
RECURSIVE ReducePoints(_, _, _, _, _)
ReducePoints(points, sqTolerance, i, prev, reduced) ==
    IF i > Len(points)
    THEN IF prev < Len(points) THEN Append(reduced, points[Len(points)]) ELSE reduced
    ELSE IF SqDist(points[i], points[prev]) > sqTolerance
         THEN ReducePoints(points, sqTolerance, i + 1, i, Append(reduced, points[i]))
         ELSE ReducePoints(points, sqTolerance, i + 1, prev, reduced)

Simplify(points, tolerance) ==
    IF tolerance = 0 \/ points = <<>>
    THEN points
    ELSE ReducePoints(points, tolerance * tolerance, 2, 1, <<points[1]>>)

\* polygon._parts[0] once the polygon is on the map: its latLngs projected to
\* layer points and simplified with the polygon's smoothFactor
Parts(polyLatLngs, smoothFactor) ==
    Simplify([i \in 1..Len(polyLatLngs) |-> latLngToLayerPoint(polyLatLngs[i])], smoothFactor)

----------------------------------------------------------------------------
(* The hull libraries *)

Cross(o, a, b) == (a[1] - o[1]) * (b[2] - o[2]) - (a[2] - o[2]) * (b[1] - o[1])

Range(seq) == {seq[i] : i \in 1..Len(seq)}

OnSegment(p, a, b) ==
    /\ Cross(a, b, p) = 0
    /\ (p[1] - a[1]) * (p[1] - b[1]) <= 0
    /\ (p[2] - a[2]) * (p[2] - b[2]) <= 0

InTriangle(p, a, b, c) ==
    /\ Cross(a, b, c) # 0
    /\ \/ Cross(a, b, p) >= 0 /\ Cross(b, c, p) >= 0 /\ Cross(c, a, p) >= 0
       \/ Cross(a, b, p) <= 0 /\ Cross(b, c, p) <= 0 /\ Cross(c, a, p) <= 0

\* the corners of the convex hull of a set of points
HullCorners(S) ==
    {p \in S :
        LET R == S \ {p}
        IN  /\ ~\E a \in R, b \in R : a # b /\ OnSegment(p, a, b)
            /\ ~\E a \in R, b \in R, c \in R : InTriangle(p, a, b, c)}

\* the corners in the order of a scan: from the lowest corner, turning one way round
HullScan(S) ==
    LET H == HullCorners(S)
        k == Cardinality(H)
        anchor == CHOOSE p \in H : \A q \in H : p[2] < q[2] \/ (p[2] = q[2] /\ p[1] <= q[1])
    IN  IF k = 0 THEN <<>>
        ELSE CHOOSE ring \in [1..k -> H] :
                /\ ring[1] = anchor
                /\ Range(ring) = H
                /\ \A i \in 1..k : \A q \in H \ {ring[i], ring[(i % k) + 1]} :
                        Cross(ring[i], ring[(i % k) + 1], q) > 0

\* new ConvexHullGrahamScan(), addPoint for every point, getHull()
ConvexHullGrahamScan(points) == HullScan(Range(points))

\* new ConcaveHull(latLngs).getLatLngs(): a closed ring round the points
ConcaveHull(hullLatLngs) ==
    LET ring == HullScan(Range(hullLatLngs))
    IN  IF ring = <<>> THEN <<>> ELSE Append(ring, ring[1])

\* L.FreeDraw.Hull.brian3kbGrahamScan, with the map set by setMap
brian3kbGrahamScan(hullLatLngs, pane) ==
    LET points == [i \in 1..Len(hullLatLngs) |-> latLngToContainerPoint(hullLatLngs[i], pane)]
        hullPoints == ConvexHullGrahamScan(points)
        resolvedPoints == Append(hullPoints, hullPoints[1])
    IN  [i \in 1..Len(resolvedPoints) |-> containerPointToLatLng(resolvedPoints[i], pane)]

\* L.FreeDraw.Hull.wildhoneyConcaveHull: it pushes onto the array it is given, which
\* is this.latLngs; arg is that array afterwards, hull the value returned
wildhoneyConcaveHull(hullLatLngs) ==
    LET pushed == Append(hullLatLngs, hullLatLngs[1])
    IN  [arg |-> pushed, hull |-> ConcaveHull(pushed)]

\* L.FreeDraw.Options.prototype.hullAlgorithms
hullAlgorithms ==
    [name \in {"brian3kb/graham_scan_js", "Wildhoney/ConcaveHull"} |->
        IF name = "brian3kb/graham_scan_js" THEN "brian3kbGrahamScan" ELSE "wildhoneyConcaveHull"]

\* what a falsy options.hullAlgorithm (false, undefined) is written as
NoHull == "false"

----------------------------------------------------------------------------
(* The editor *)

\* this.movingEdge = null
NoEdge == [polygonId |-> 0, index |-> 0]

EdgeRef(edge) == [polygonId |-> edge.polygonId, index |-> edge.index]

\* the statements after a call, which a throw skips
Then(s, Rest(_)) == IF s.raised THEN s ELSE Rest(s)

\* the callbacks a user hands to options.getMarkers: the default, which does nothing;
\* one that calls the completion at once with marker positions; one that calls it with
\* a second argument that is no L.DivIcon; one that calls it with a position that is no
\* L.LatLng
MarkersFns == {"noop", "sync", "syncBadIcon", "syncBadLatLng"}

GoodMarker == [isLatLng |-> TRUE, at |-> PixelOrigin]
BadMarker == [isLatLng |-> FALSE, at |-> PixelOrigin]

RECURSIVE AddMarkers(_, _, _)
AddMarkers(s, markers, addIndex) ==
    IF addIndex > Len(markers) THEN s
    ELSE IF ~markers[addIndex].isLatLng
         THEN [s EXCEPT !.raised = TRUE]
         ELSE AddMarkers([s EXCEPT !.markerLayer = Append(@, markers[addIndex].at)],
                         markers, addIndex + 1)

setMarkers(s, markers, divIcon) ==
    IF divIcon # "undefined" /\ divIcon # "DivIcon"
    THEN [s EXCEPT !.raised = TRUE]
    ELSE LET reset == [s EXCEPT !.markerLayer = <<>>]
         IN  IF markers = <<>> THEN reset ELSE AddMarkers(reset, markers, 1)

\* the array notifyBoundaries builds: one array of latLngs per run of handles with
\* the same _polygonId
RECURSIVE GroupEdges(_, _, _, _)
GroupEdges(edgeSeq, i, last, out) ==
    IF i > Len(edgeSeq) THEN out
    ELSE LET edge == edgeSeq[i]
             opened == IF edge.polygonId # last THEN Append(out, <<>>) ELSE out
         IN  GroupEdges(edgeSeq, i + 1, edge.polygonId,
                        [opened EXCEPT ![Len(opened)] = Append(@, edge.latlng)])

\* the array with every handle in one entry, index++ left out: the slip C11 must detect
BoundaryLatLngsInOneGroup(edgeSeq) ==
    IF edgeSeq = <<>> THEN <<>> ELSE <<[i \in 1..Len(edgeSeq) |-> edgeSeq[i].latlng]>>

BoundaryLatLngs(edgeSeq) == GroupEdges(edgeSeq, 1, 0, <<>>)

\* this.options.markersFn(latLngs, this.setMarkers.bind(this))
markersFn(s, boundaries) ==
    CASE s.options.markersFn = "noop" -> s
      [] s.options.markersFn = "sync" -> setMarkers(s, <<GoodMarker>>, "undefined")
      [] s.options.markersFn = "syncBadIcon" -> setMarkers(s, <<GoodMarker>>, "object")
      [] s.options.markersFn = "syncBadLatLng" -> setMarkers(s, <<GoodMarker, BadMarker>>, "undefined")

notifyBoundaries(s) ==
    LET boundaries == BoundaryLatLngs(s.edges)
    IN  markersFn([s EXCEPT !.notified = Append(@, Len(boundaries))], boundaries)

defineClasses(m, classes) ==
    (classes \ ModeClasses)
        \cup (IF ModeBit(m, CREATE) THEN {"mode-create"} ELSE {})
        \cup (IF ModeBit(m, EDIT) THEN {"mode-edit"} ELSE {})
        \cup (IF ModeBit(m, DELETE) THEN {"mode-delete"} ELSE {})
        \cup (IF ModeBit(m, VIEW) THEN {"mode-view"} ELSE {})

setMode(s, m) ==
    LET isCreate == ModeBit(m, CREATE)
        set == [s EXCEPT !.mode = m]
        Update(t) ==
            [t EXCEPT !.permissions = [p \in DOMAIN @ |-> ~isCreate],
                      !.classList = defineClasses(m, @)]
        ClearFlag(t) == [t EXCEPT !.boundaryUpdateRequired = FALSE]
    IN  IF ~set.map THEN set
        ELSE IF set.boundaryUpdateRequired /\ ~ModeBit(set.mode, EDIT)
             THEN Then(Then(notifyBoundaries(set), ClearFlag), Update)
             ELSE Update(set)

\* attachEdges pushing the handles of the polygon last vertex first: the slip C20
\* must detect
attachEdgesLastFirst(s, polygonId, parts) ==
    [s EXCEPT !.edges = @ \o [i \in 1..Len(parts) |->
        [polygonId |-> polygonId, index |-> Len(parts) - i, length |-> Len(parts),
         latlng |-> layerPointToLatLng(parts[Len(parts) - i + 1])]]]

attachEdges(s, polygonId, parts) ==
    [s EXCEPT !.edges = @ \o [i \in 1..Len(parts) |->
        [polygonId |-> polygonId, index |-> i - 1, length |-> Len(parts),
         latlng |-> layerPointToLatLng(parts[i])]]]

\* createPolygon returns the polygon: it is the last of s.polygons
createPolygon(s, polyLatLngs) ==
    LET parts == Parts(polyLatLngs, s.options.smoothFactor)
        polygonId == Len(s.polygons) + 1
        added == [s EXCEPT !.polygons = Append(@,
                    [latlngs |-> <<>>, container |-> TRUE, click |-> FALSE])]
        attached == attachEdges(added, polygonId, parts)
        clobbered == [attached EXCEPT !.polygons[polygonId].latlngs =
                        [i \in 1..Len(parts) |-> containerPointToLatLng(parts[i], s.panePos)]]
    IN  notifyBoundaries(clobbered)

\* destroyPolygon with the filter of this.edges left out: the slip C5 must detect
destroyPolygonLeavingEdges(s, polygonId) ==
    notifyBoundaries([s EXCEPT !.polygons[polygonId].container = FALSE])

destroyPolygon(s, polygonId) ==
    notifyBoundaries(
        [s EXCEPT !.polygons[polygonId].container = FALSE,
                  !.edges = SelectSeq(@, LAMBDA edge : edge.polygonId # polygonId)])

\* this.edges.forEach over the array as it was when clearPolygons was called
RECURSIVE ClearEach(_, _, _)
ClearEach(s, edgeSeq, i) ==
    IF i > Len(edgeSeq) \/ s.raised THEN s
    ELSE ClearEach(destroyPolygon(s, edgeSeq[i].polygonId), edgeSeq, i + 1)

clearPolygons(s) == Then(ClearEach(s, s.edges, 1), notifyBoundaries)

\* updatePolygonEdge without edge._polygon.setLatLngs: the slip C19 must detect
updatePolygonEdgeKeepingLatLngs(s, edge, point) ==
    LET updatedLatLng == containerPointToLatLng(point, s.panePos)
        moved == [s EXCEPT !.edges = [i \in 1..Len(@) |->
                    IF EdgeRef(@[i]) = edge THEN [@[i] EXCEPT !.latlng = updatedLatLng] ELSE @[i]]]
    IN  [moved EXCEPT !.redrawn = Append(@, edge.polygonId)]

\* updatePolygonEdge with every handle of the polygon set to the new position
\* instead of the grabbed one: the slip C18 must detect
updatePolygonEdgeMovingSiblings(s, edge, point) ==
    LET updatedLatLng == containerPointToLatLng(point, s.panePos)
        moved == [s EXCEPT !.edges = [i \in 1..Len(@) |->
                    IF @[i].polygonId = edge.polygonId
                    THEN [@[i] EXCEPT !.latlng = updatedLatLng] ELSE @[i]]]
        siblings == SelectSeq(moved.edges, LAMBDA marker : marker.polygonId = edge.polygonId)
        updatedLatLngs == [i \in 1..Len(siblings) |-> siblings[i].latlng]
    IN  [moved EXCEPT !.polygons[edge.polygonId].latlngs = updatedLatLngs,
                      !.redrawn = Append(@, edge.polygonId)]

updatePolygonEdge(s, edge, point) ==
    LET updatedLatLng == containerPointToLatLng(point, s.panePos)
        moved == [s EXCEPT !.edges = [i \in 1..Len(@) |->
                    IF EdgeRef(@[i]) = edge THEN [@[i] EXCEPT !.latlng = updatedLatLng] ELSE @[i]]]
        siblings == SelectSeq(moved.edges, LAMBDA marker : marker.polygonId = edge.polygonId)
        updatedLatLngs == [i \in 1..Len(siblings) |-> siblings[i].latlng]
    IN  [moved EXCEPT !.polygons[edge.polygonId].latlngs = updatedLatLngs,
                      !.redrawn = Append(@, edge.polygonId)]

----------------------------------------------------------------------------
(* The listeners *)

\* map.on('mousedown')
onMouseDown(s, button, point) ==
    IF button = RIGHT_CLICK THEN s
    ELSE IF ~s.options.multiplePolygons /\ Len(s.edges) # 0 THEN s
    ELSE [s EXCEPT !.latLngs = <<>>,
                   !.fromPoint = point,
                   !.creating = IF ModeBit(s.mode, CREATE) THEN TRUE ELSE @]

_editMouseMove(s, point) == updatePolygonEdge(s, s.movingEdge, point)

_createMouseMove(s, point) ==
    [s EXCEPT !.fromPoint = point,
              !.latLngs = Append(@, containerPointToLatLng(point, s.panePos))]

\* map.on('mousemove')
onMouseMove(s, point) ==
    IF s.movingEdge # NoEdge THEN _editMouseMove(s, point)
    ELSE IF ~s.creating THEN s
    ELSE _createMouseMove(s, point)

_createMouseUp(s) ==
    LET done == [s EXCEPT !.creating = FALSE]
        algorithm == s.options.hullAlgorithm
        \* this.hull[this.options.hullAlgorithm](this.latLngs)
        reduced ==
            CASE algorithm = "brian3kbGrahamScan" ->
                    [arg |-> done.latLngs, hull |-> brian3kbGrahamScan(done.latLngs, s.panePos)]
              [] algorithm = "wildhoneyConcaveHull" -> wildhoneyConcaveHull(done.latLngs)
              [] OTHER -> [arg |-> done.latLngs, hull |-> <<>>]
        joined == [done EXCEPT !.latLngs = Append(reduced.arg, reduced.arg[1])]
        \* latLngs || this.latLngs
        drawn == IF algorithm # NoHull THEN reduced.hull ELSE joined.latLngs
        Finish(t) ==
            LET polygon == Len(t.polygons)
                bound == [t EXCEPT !.latLngs = <<>>, !.polygons[polygon].click = TRUE]
            IN  IF bound.options.createExitMode
                THEN setMode(bound, ModeXor(bound.mode, CREATE))
                ELSE bound
    IN  IF Len(done.latLngs) <= 2 THEN done
        ELSE Then(createPolygon(joined, drawn), Finish)

\* map.on('mouseup mouseout mouseleave')
onMouseUpAndMouseLeave(s) ==
    LET Release(t) == [t EXCEPT !.movingEdge = NoEdge]
    IN  IF s.movingEdge # NoEdge
        THEN IF ~s.options.boundariesAfterEdit
             THEN Then(notifyBoundaries(s), Release)
             ELSE Release([s EXCEPT !.boundaryUpdateRequired = TRUE])
        ELSE _createMouseUp(s)

\* edge.on('mousedown')
onEdgeMouseDown(s, edge) == [s EXCEPT !.movingEdge = EdgeRef(edge)]

\* polygon.on('click')
onClick(s, polygonId) ==
    IF ModeBit(s.mode, DELETE) THEN destroyPolygon(s, polygonId) ELSE s

\* a click on a polygon runs the listener _createMouseUp has registered, if it has
fireClick(s, polygonId) ==
    IF s.polygons[polygonId].click THEN onClick(s, polygonId) ELSE s

onAdd(s) ==
    LET added == [s EXCEPT !.map = TRUE, !.mode = IF @ = 0 THEN VIEW ELSE @]
    IN  setMode(added, added.mode)

onRemove(s) == clearPolygons(s)

\* L.FreeDraw.Options.setHullAlgorithm
setHullAlgorithm(opts, algorithm) ==
    IF algorithm # NoHull /\ algorithm \notin DOMAIN hullAlgorithms
    THEN opts
    ELSE [opts EXCEPT !.hullAlgorithm =
            IF algorithm \in DOMAIN hullAlgorithms THEN hullAlgorithms[algorithm] ELSE NoHull]

allowMultiplePolygons(opts, allow) == [opts EXCEPT !.multiplePolygons = allow]

setBoundariesAfterEdit(opts, value) == [opts EXCEPT !.boundariesAfterEdit = value]

exitModeAfterCreate(opts, value) == [opts EXCEPT !.createExitMode = value]

getMarkers(opts, fn) == [opts EXCEPT !.markersFn = fn]

\* new L.FreeDraw.Options()
DefaultOptions ==
    [multiplePolygons |-> TRUE,
     hullAlgorithm |-> NoHull,
     boundariesAfterEdit |-> FALSE,
     createExitMode |-> TRUE,
     markersFn |-> "noop",
     smoothFactor |-> SmoothFactor]

----------------------------------------------------------------------------
(* The state machine *)

\* the editor as the record the methods work on, at the start of an entry point:
\* nothing notified, nothing redrawn and nothing thrown yet
Editor ==
    [map |-> map, mode |-> mode, creating |-> creating, latLngs |-> latLngs,
     fromPoint |-> fromPoint, movingEdge |-> movingEdge,
     boundaryUpdateRequired |-> boundaryUpdateRequired, edges |-> edges,
     polygons |-> polygons, options |-> options, permissions |-> permissions,
     classList |-> classList, markerLayer |-> markerLayer, panePos |-> panePos,
     notified |-> <<>>, redrawn |-> <<>>, raised |-> FALSE]

Becomes(s) ==
    /\ map' = s.map
    /\ mode' = s.mode
    /\ creating' = s.creating
    /\ latLngs' = s.latLngs
    /\ fromPoint' = s.fromPoint
    /\ movingEdge' = s.movingEdge
    /\ boundaryUpdateRequired' = s.boundaryUpdateRequired
    /\ edges' = s.edges
    /\ polygons' = s.polygons
    /\ options' = s.options
    /\ permissions' = s.permissions
    /\ classList' = s.classList
    /\ markerLayer' = s.markerLayer
    /\ panePos' = s.panePos

\* the state after new L.FreeDraw({}) and the calls that configure its options:
\* initialize has called setMode(this.mode) with no map yet
InitWith(configured) ==
    /\ map = FALSE
    /\ mode = VIEW
    /\ creating = FALSE
    /\ latLngs = <<>>
    /\ fromPoint = <<0, 0>>
    /\ movingEdge = NoEdge
    /\ boundaryUpdateRequired = FALSE
    /\ edges = <<>>
    /\ polygons = <<>>
    /\ options \in configured
    /\ permissions = [p \in {"dragging", "touchZoom", "doubleClickZoom", "scrollWheelZoom"} |-> TRUE]
    /\ classList = {}
    /\ markerLayer = <<>>
    /\ panePos = <<0, 0>>

SetMode(m) == Becomes(setMode(Editor, m))

OnAdd ==
    /\ ~map
    /\ Becomes(onAdd(Editor))

OnRemove ==
    /\ map
    /\ Becomes(onRemove(Editor))

ClearPolygons ==
    /\ map
    /\ Becomes(clearPolygons(Editor))

MouseDown(button, point) ==
    /\ map
    /\ Becomes(onMouseDown(Editor, button, point))

\* a mousemove is fired when the pointer has moved
MouseMove(point) ==
    /\ map
    /\ (movingEdge = NoEdge /\ creating) => (Len(latLngs) < MaxTrace /\ point # fromPoint)
    /\ Becomes(onMouseMove(Editor, point))

\* mouseup, mouseout and mouseleave share one listener
MouseUp ==
    /\ map
    /\ (movingEdge = NoEdge /\ Len(latLngs) > 2) => Len(polygons) < MaxPolygons
    /\ Becomes(onMouseUpAndMouseLeave(Editor))

\* a mousedown on the icon of a handle that is on the map
EdgeMouseDown(i) ==
    /\ map
    /\ Becomes(onEdgeMouseDown(Editor, edges[i]))

\* a click on a polygon that is on the map; without the listener nothing runs
Click(polygonId) ==
    /\ map
    /\ polygons[polygonId].container
    /\ Becomes(fireClick(Editor, polygonId))

SetHullAlgorithm(algorithm) ==
    Becomes([Editor EXCEPT !.options = setHullAlgorithm(@, algorithm)])

AllowMultiplePolygons(allow) ==
    Becomes([Editor EXCEPT !.options = allowMultiplePolygons(@, allow)])

SetBoundariesAfterEdit(value) ==
    Becomes([Editor EXCEPT !.options = setBoundariesAfterEdit(@, value)])

ExitModeAfterCreate(value) ==
    Becomes([Editor EXCEPT !.options = exitModeAfterCreate(@, value)])

GetMarkers(fn) ==
    Becomes([Editor EXCEPT !.options = getMarkers(@, fn)])

\* the user drags the map, which the host allows while dragging is enabled
Pan(pane) ==
    /\ map
    /\ permissions["dragging"]
    /\ pane # panePos
    /\ Becomes([Editor EXCEPT !.panePos = pane])

HullNames == {NoHull, "brian3kb/graham_scan_js", "Wildhoney/ConcaveHull", "unknown"}

\* where a grabbed handle is dragged to
DragPixels == {<<50, 50>>}

----------------------------------------------------------------------------
(* Spec: one editor on one map.  The editor is configured before it is     *)
(* added to the map: one polygon or several, boundaries after each edit or *)
(* after edit mode, create mode left after a polygon or kept, and a        *)
(* markers callback that does nothing or that hands the completion         *)
(* something that is no L.DivIcon.  Up to MaxPolygons polygons are drawn,  *)
(* dragged by their handles, clicked and cleared.                          *)

Configurations ==
    {[DefaultOptions EXCEPT !.multiplePolygons = multiple,
                            !.boundariesAfterEdit = afterEdit,
                            !.createExitMode = exit,
                            !.markersFn = fn] :
        multiple \in BOOLEAN, afterEdit \in BOOLEAN, exit \in BOOLEAN,
        fn \in {"noop", "syncBadIcon"}}

\* the modes the application sets; the editor itself sets mode ^ CREATE
ModeInputs == {VIEW, CREATE, EDIT, CREATE + DELETE, EDIT + DELETE}

\* where the button goes down on the map, and where the pointer goes while tracing
DownPixels == {<<10, 10>>}

TracePixels == {<<10, 10>>, <<50, 50>>}

Init == InitWith(Configurations)

Next ==
    \/ \E m \in ModeInputs : SetMode(m)
    \/ OnAdd
    \/ OnRemove
    \/ ClearPolygons
    \/ \E button \in {LEFT_CLICK, RIGHT_CLICK}, point \in DownPixels : MouseDown(button, point)
    \/ \E point \in (IF movingEdge # NoEdge THEN DragPixels ELSE TracePixels) : MouseMove(point)
    \/ MouseUp
    \/ \E i \in 1..Len(edges) : EdgeMouseDown(i)
    \/ \E polygonId \in 1..Len(polygons) : Click(polygonId)

Spec == Init /\ [][Next]_vars

----------------------------------------------------------------------------
(* SpecHull: the hull algorithm is selected by name, any number of times,  *)
(* and polygons are traced over three pixels in create mode.               *)

HullTracePixels == {<<10, 10>>, <<50, 10>>, <<50, 50>>}

InitHull == InitWith({DefaultOptions})

NextHull ==
    \/ \E algorithm \in HullNames : SetHullAlgorithm(algorithm)
    \/ OnAdd
    \/ SetMode(CREATE)
    \/ \E point \in DownPixels : MouseDown(LEFT_CLICK, point)
    \/ \E point \in HullTracePixels : MouseMove(point)
    \/ MouseUp

SpecHull == InitHull /\ [][NextHull]_vars

-----------------------------------------------------------------------------
(* The editor with a callback that keeps the completion it is given and     *)
(* calls it later, any number of times: each call is a step of its own.     *)

MarkerPositions == {<<0, 0>>, <<10, 10>>}

\* what a callback may put in the array it hands to the completion
MarkerEntries ==
    [isLatLng : {TRUE}, at : MarkerPositions] \cup {BadMarker}

\* the arrays, the missing and the empty one being <<>>
MarkerArrays ==
    {<<>>} \cup {<<a>> : a \in MarkerEntries}
           \cup {<<a, b>> : a \in MarkerEntries, b \in MarkerEntries}

DivIcons == {"undefined", "DivIcon", "object"}

\* the completion bound by notifyBoundaries, called after the notification returned
SetMarkers(markers, divIcon) ==
    /\ map
    /\ Becomes(setMarkers(Editor, markers, divIcon))

InitMarkers == InitWith({DefaultOptions})

NextMarkers ==
    \/ OnAdd
    \/ \E m \in {VIEW, CREATE} : SetMode(m)
    \/ \E point \in DownPixels : MouseDown(LEFT_CLICK, point)
    \/ \E point \in TracePixels : MouseMove(point)
    \/ MouseUp
    \/ \E markers \in MarkerArrays, divIcon \in DivIcons : SetMarkers(markers, divIcon)

SpecMarkers == InitMarkers /\ [][NextMarkers]_vars

-----------------------------------------------------------------------------
(* Two editors, each on a map of its own.  The user works on the map of the *)
(* first, whose fields are the variables; the second has been constructed   *)
(* and added to its map and nothing is done to it.  edges: [] is a property *)
(* of the prototype: until an instance assigns this.edges, which only the   *)
(* filter of destroyPolygon does, this.edges is that one array for every    *)
(* instance, and attachEdges pushes onto it.  No polygon is destroyed here, *)
(* so the array of the prototype is the variable edges.  The polygons are   *)
(* Leaflet's objects, the same whoever holds a reference to them.           *)

\* new L.FreeDraw() with options of its own, then map2.addLayer
SecondInstance(opts) ==
    onAdd([map |-> FALSE, mode |-> VIEW, creating |-> FALSE, latLngs |-> <<>>,
           fromPoint |-> <<0, 0>>, movingEdge |-> NoEdge,
           boundaryUpdateRequired |-> FALSE,
           edges |-> edges,
           polygons |-> polygons, options |-> opts,
           permissions |-> [p \in DOMAIN permissions |-> TRUE],
           classList |-> {}, markerLayer |-> <<>>, panePos |-> <<0, 0>>,
           notified |-> <<>>, redrawn |-> <<>>, raised |-> FALSE])

SecondOptions == {[DefaultOptions EXCEPT !.multiplePolygons = multiple] : multiple \in BOOLEAN}

InitTwo == InitWith({DefaultOptions})

NextTwo ==
    \/ OnAdd
    \/ \E m \in {VIEW, CREATE, EDIT} : SetMode(m)
    \/ \E point \in DownPixels : MouseDown(LEFT_CLICK, point)
    \/ \E point \in IF movingEdge # NoEdge THEN DragPixels ELSE TracePixels : MouseMove(point)
    \/ MouseUp
    \/ \E i \in 1..Len(edges) : EdgeMouseDown(i)

SpecTwo == InitTwo /\ [][NextTwo]_vars

----------------------------------------------------------------------------
(* The claims.  A claim about what a handler does is stated of the outcome *)
(* of the handler in every reachable state in which it can run.            *)

\* the polygons on the map, and the handles of one polygon
LivePolygons(s) == {polygonId \in 1..Len(s.polygons) : s.polygons[polygonId].container}

HandlesOf(s, polygonId) == SelectSeq(s.edges, LAMBDA edge : edge.polygonId = polygonId)

\* the indicator classes and the permissions that go with a mode
IndicatorsOf(m) ==
    {class \in {"mode-view", "mode-create", "mode-edit", "mode-delete"} :
        \/ class = "mode-view" /\ ModeBit(m, VIEW)
        \/ class = "mode-create" /\ ModeBit(m, CREATE)
        \/ class = "mode-edit" /\ ModeBit(m, EDIT)
        \/ class = "mode-delete" /\ ModeBit(m, DELETE)}

ModeShown(s, m) ==
    /\ s.classList = IndicatorsOf(m)
    /\ \A p \in DOMAIN s.permissions : s.permissions[p] = ~ModeBit(m, CREATE)

\* the polygon a handler added, 0 when it added none
Created(s, t) == IF Len(t.polygons) > Len(s.polygons) THEN Len(t.polygons) ELSE 0

\* C1: after any setMode(m) on an editor attached to a map, m in 0..15, also the
\* call made after a polygon is created, the container carries exactly the
\* indicator classes of the bits of m and the four permissions are all disabled
\* if and only if CREATE is in m
C1_SetModeShowsMode ==
    map =>
        /\ \A m \in Modes : ModeShown(setMode(Editor, m), m)
        /\ LET t == onMouseUpAndMouseLeave(Editor)
               polygon == Created(Editor, t)
           IN  (polygon # 0 /\ t.polygons[polygon].click /\ options.createExitMode)
                   => ModeShown(t, t.mode)

\* the handler has run and the next event finds the editor as it left it
Settled(t) == [t EXCEPT !.notified = <<>>, !.redrawn = <<>>, !.raised = FALSE]

\* C2: a trace begun by a pointer-down in CREATE mode that has n >= 3 points, with
\* no hull algorithm: the pointer-up creates exactly one polygon, whose points are
\* the n points in their order followed by the first point, n + 1 vertices
C2_TraceBecomesClosedPolygon ==
    (map /\ creating /\ Len(latLngs) >= 3 /\ options.hullAlgorithm = NoHull) =>
        LET t == onMouseUpAndMouseLeave(Editor)
        IN  /\ Len(t.polygons) = Len(polygons) + 1
            /\ t.polygons[Len(t.polygons)].container
            /\ t.polygons[Len(t.polygons)].latlngs = Append(latLngs, latLngs[1])
            /\ Len(HandlesOf(t, Len(t.polygons))) = Len(latLngs) + 1

\* C3: a trace with fewer than 3 points at pointer-up, -out or -leave is
\* discarded: polygons and handles are unchanged, nothing is notified, the mode
\* is unchanged and nothing is thrown
C3_ShortTraceDiscarded ==
    (map /\ creating /\ Len(latLngs) < 3) =>
        LET t == onMouseUpAndMouseLeave(Editor)
        IN  /\ t.polygons = polygons
            /\ t.edges = edges
            /\ t.notified = <<>>
            /\ t.mode = mode
            /\ ~t.raised

\* C4: with multiplePolygons false from the start, no reachable state has more
\* than one polygon on the map
C4_AtMostOnePolygon ==
    ~options.multiplePolygons => Cardinality(LivePolygons(Editor)) <= 1

\* the handles of a polygon as the registry lists them, positions aside
HandleRefs(s, polygonId) ==
    LET handles == HandlesOf(s, polygonId)
    IN  [i \in 1..Len(handles) |-> EdgeRef(handles[i])]

\* every handle belongs to a polygon on the map, and a polygon on the map has the
\* handles 0..length-1 that attachEdges gave it, each once
HandlesMatchPolygons ==
    /\ \A i \in 1..Len(edges) : edges[i].polygonId \in LivePolygons(Editor)
    /\ \A polygonId \in LivePolygons(Editor) :
        LET handles == HandlesOf(Editor, polygonId)
        IN  /\ handles # <<>>
            /\ Len(handles) = handles[1].length
            /\ {handles[i].index : i \in 1..Len(handles)} = 0..(handles[1].length - 1)

\* a step leaves the handles of a polygon as they are, or adds them with the
\* polygon, or removes them all with the polygon
HandlesFollowPolygons ==
    \A polygonId \in 1..Len(polygons') :
        LET before == IF polygonId <= Len(polygons) THEN HandleRefs(Editor, polygonId) ELSE <<>>
            after == HandleRefs(Editor', polygonId)
        IN  \/ after = before
            \/ polygonId > Len(polygons) /\ polygons'[polygonId].container
            \/ /\ after = <<>>
               /\ polygonId <= Len(polygons)
               /\ polygons[polygonId].container
               /\ ~polygons'[polygonId].container

\* C5: in every reachable state every handle in the registry references a polygon
\* that is on the map and every polygon on the map has exactly one handle per
\* vertex it was created with; handles are added only together with their
\* polygon and removed only, all at once, when the polygon is destroyed
C5_HandlesLiveWithPolygon == [](HandlesMatchPolygons) /\ [][HandlesFollowPolygons]_vars

\* a polygon has been destroyed with its handles while another polygon keeps its own
C5_Witness ==
    \E gone, kept \in 1..Len(polygons) :
        /\ ~polygons[gone].container
        /\ polygons[kept].container
        /\ HandlesOf(Editor, gone) = <<>>
        /\ Len(HandlesOf(Editor, kept)) > 2

\* what a polygon and its handles are: on the map or not, its points, its handles
Shape(s, polygonId) ==
    [container |-> s.polygons[polygonId].container,
     latlngs |-> s.polygons[polygonId].latlngs,
     handles |-> HandlesOf(s, polygonId)]

Unchanged(s, t) ==
    /\ \A field \in DOMAIN s \ {"notified", "redrawn", "raised"} : t[field] = s[field]
    /\ t.notified = <<>>

\* C6: a click on a polygon while DELETE is in the mode removes the polygon and
\* all its handles, leaves every other polygon and its handles as they are and
\* notifies the boundaries exactly once; a click while DELETE is not in the mode
\* changes nothing and notifies nothing
C6_ClickDeletesInDeleteMode ==
    map =>
        \A polygonId \in LivePolygons(Editor) :
            LET t == fireClick(Editor, polygonId)
            IN  IF ModeBit(mode, DELETE)
                THEN /\ polygonId \notin LivePolygons(t)
                     /\ HandlesOf(t, polygonId) = <<>>
                     /\ \A other \in (1..Len(polygons)) \ {polygonId} :
                            Shape(t, other) = Shape(Editor, other)
                     /\ Len(t.notified) = 1
                ELSE Unchanged(Editor, t)

\* C7: clearPolygons, with any number of polygons on the map, removes every
\* polygon and every handle and notifies the boundaries exactly once, after all
\* polygons are removed, so with an empty list; onRemove does the same
C7_ClearNotifiesOnce ==
    map =>
        \A t \in {clearPolygons(Editor), onRemove(Editor)} :
            /\ LivePolygons(t) = {}
            /\ t.edges = <<>>
            /\ t.notified = <<0>>

\* C8: with boundariesAfterEdit false, the pointer-up, -out or -leave that
\* releases a grabbed handle notifies the boundaries exactly once and leaves no
\* handle grabbed, and an up, out or leave that follows without a new grab
\* notifies nothing
C8_ReleaseNotifiesOnce ==
    (map /\ movingEdge # NoEdge /\ ~options.boundariesAfterEdit) =>
        LET released == onMouseUpAndMouseLeave(Editor)
            again == onMouseUpAndMouseLeave(Settled(released))
        IN  /\ Len(released.notified) = 1
            /\ released.movingEdge = NoEdge
            /\ again.notified = <<>>

\* C9: with boundariesAfterEdit true, releasing a grabbed handle notifies nothing
\* and marks a notification as pending, however often; a later setMode(m)
\* notifies exactly once and clears the mark if EDIT is not in m, and notifies
\* nothing and keeps the mark if EDIT is in m
C9_PendingUntilEditLeft ==
    /\ (map /\ movingEdge # NoEdge /\ options.boundariesAfterEdit) =>
        LET released == onMouseUpAndMouseLeave(Editor)
        IN  /\ released.notified = <<>>
            /\ released.boundaryUpdateRequired
    /\ (map /\ boundaryUpdateRequired) =>
        \A m \in Modes :
            LET t == setMode(Editor, m)
            IN  IF ModeBit(m, EDIT)
                THEN t.notified = <<>> /\ t.boundaryUpdateRequired
                ELSE Len(t.notified) = 1 /\ ~t.boundaryUpdateRequired

\* C10: with createExitMode true, right after a polygon is created CREATE is not
\* in the mode and every other bit of the mode is as it was before the
\* pointer-up, whatever the mode was then, also when setMode was called between
\* the pointer-down and the pointer-up; with createExitMode false the creation
\* leaves the mode as it was
C10_CreateLeavesCreateMode ==
    map =>
        LET t == onMouseUpAndMouseLeave(Editor)
        IN  (Created(Editor, t) # 0 /\ ~t.raised) =>
                IF options.createExitMode
                THEN /\ ~ModeBit(t.mode, CREATE)
                     /\ \A bit \in {VIEW, EDIT, DELETE} : ModeBit(t.mode, bit) = ModeBit(mode, bit)
                ELSE t.mode = mode

\* the polygon ids among the handles, in the order the registry first shows them
RECURSIVE FirstSeen(_, _, _)
FirstSeen(edgeSeq, i, seen) ==
    IF i > Len(edgeSeq) THEN seen
    ELSE FirstSeen(edgeSeq, i + 1,
                   IF \E k \in 1..Len(seen) : seen[k] = edgeSeq[i].polygonId
                   THEN seen ELSE Append(seen, edgeSeq[i].polygonId))

\* the position of the handle of a polygon with a given index
PositionOf(s, polygonId, index) ==
    LET handle == CHOOSE edge \in {s.edges[i] : i \in 1..Len(s.edges)} :
                    edge.polygonId = polygonId /\ edge.index = index
    IN  handle.latlng

\* one group per polygon that has handles, in the order of FirstSeen, each with the
\* positions of the polygon's handles by increasing index
GroupsByPolygon(s) ==
    LET ids == FirstSeen(s.edges, 1, <<>>)
    IN  [g \in 1..Len(ids) |->
            [k \in 1..Len(HandlesOf(s, ids[g])) |-> PositionOf(s, ids[g], k - 1)]]

\* C11: in every reachable state the list notifyBoundaries passes to the callback
\* has exactly one group per polygon id among the handles, none split and no two
\* merged, in the order the polygons are first met in the registry, each group
\* the current positions of the polygon's handles in increasing vertex index
C11_OneGroupPerPolygon == BoundaryLatLngs(edges) = GroupsByPolygon(Editor)

\* two polygons have handles and a handle of one has been dragged away
C11_Witness ==
    /\ Len(FirstSeen(edges, 1, <<>>)) = 2
    /\ \E i \in 1..Len(edges) :
        /\ edges[i].index = 1
        /\ edges[i].latlng = containerPointToLatLng(<<50, 50>>, panePos)
        /\ movingEdge = EdgeRef(edges[i])

\* C12: setHullAlgorithm with a name that is no registered algorithm never throws
\* and leaves hull reduction disabled, whatever algorithm was selected before:
\* a polygon created afterwards is built from the traced points as they are
C12_UnknownHullDisables ==
    LET selected == [Editor EXCEPT !.options = setHullAlgorithm(@, "unknown")]
    IN  /\ selected.options.hullAlgorithm = NoHull
        /\ (map /\ creating /\ movingEdge = NoEdge /\ Len(latLngs) >= 3) =>
            LET t == onMouseUpAndMouseLeave(selected)
            IN  t.polygons[Len(t.polygons)].latlngs = Append(latLngs, latLngs[1])

\* C13: an error the marker completion reports does no harm to the editor, also
\* when the callback calls the completion inside a notification made by a handle
\* release, a polygon creation, a deletion or setMode: afterwards no handle is
\* grabbed, the pending mark is cleared, permissions and indicators match the
\* mode, the traced points are reset and the click listener is registered
C13_CompletionErrorLeavesEditorWhole ==
    map =>
        /\ movingEdge # NoEdge => onMouseUpAndMouseLeave(Editor).movingEdge = NoEdge
        /\ \A m \in Modes :
            LET t == setMode(Editor, m)
            IN  /\ ModeShown(t, m)
                /\ ~ModeBit(m, EDIT) => ~t.boundaryUpdateRequired
        /\ LET t == onMouseUpAndMouseLeave(Editor)
               polygon == Created(Editor, t)
           IN  polygon # 0 => (t.latLngs = <<>> /\ t.polygons[polygon].click)
        /\ \A polygonId \in LivePolygons(Editor) :
            LET t == destroyPolygon(Editor, polygonId)
            IN  ~t.raised

Blocked(s, button) ==
    button = RIGHT_CLICK \/ (~s.options.multiplePolygons /\ Len(s.edges) # 0)

\* C14: a pointer-down of the right button, or one made while multiplePolygons is
\* off and a polygon exists, changes nothing (creating, latLngs, fromPoint,
\* polygons, edges and mode keep their values), and the pointer-move and
\* pointer-up that follow it create no polygon and add no handle; stated for a
\* pointer-down that arrives while no trace is in progress
C14_BlockedMouseDownIsNoOp ==
    (map /\ ~creating) =>
        \A button \in {LEFT_CLICK, RIGHT_CLICK}, point \in DownPixels :
            Blocked(Editor, button) =>
                LET t == onMouseDown(Editor, button, point)
                IN  /\ Unchanged(Editor, t)
                    /\ \A moved \in TracePixels :
                        LET u == onMouseUpAndMouseLeave(onMouseMove(t, moved))
                        IN  /\ Created(Editor, u) = 0
                            /\ Len(u.edges) = Len(edges)

\* C15: destroying the same polygon twice: the first call removes all the handles
\* of the polygon, at least one; the second call removes none, raises no error
\* and leaves this.edges exactly as the first call left it
C15_DestroyTwice ==
    map =>
        \A polygonId \in LivePolygons(Editor) :
            LET first == destroyPolygon(Editor, polygonId)
                second == destroyPolygon(Settled(first), polygonId)
            IN  /\ Len(first.edges) < Len(edges)
                /\ HandlesOf(first, polygonId) = <<>>
                /\ first.edges = SelectSeq(edges, LAMBDA edge : edge.polygonId # polygonId)
                /\ second.edges = first.edges
                /\ ~second.raised

\* C16: a pointer-down that arrives while CREATE is not in the mode is ignored:
\* creating, latLngs and fromPoint keep the values they had before the event
C16_MouseDownOutsideCreateIgnored ==
    (map /\ ~ModeBit(mode, CREATE)) =>
        \A button \in {LEFT_CLICK, RIGHT_CLICK}, point \in DownPixels :
            LET t == onMouseDown(Editor, button, point)
            IN  /\ t.creating = creating
                /\ t.latLngs = latLngs
                /\ t.fromPoint = fromPoint

\* C17: after every pointer-up, pointer-out or pointer-leave that ends a trace
\* (no handle grabbed), creating is false and latLngs is empty, whether the trace
\* became a polygon or was discarded as too short
C17_TraceEndsEmpty ==
    (map /\ creating /\ movingEdge = NoEdge) =>
        LET t == onMouseUpAndMouseLeave(Editor)
        IN  /\ ~t.creating
            /\ t.latLngs = <<>>

\* C18: a pointer-move while a handle is grabbed sets the position of that handle
\* and of no other: its siblings, the handles of other polygons, the membership
\* and order of this.edges, the points of other polygons, the mode and the
\* tracer's points are unchanged, and the boundaries are not notified
C18_DragMovesOneHandle ==
    (map /\ movingEdge # NoEdge) =>
        \A point \in DragPixels \cup TracePixels :
            LET t == onMouseMove(Editor, point)
            IN  /\ Len(t.edges) = Len(edges)
                /\ \A i \in 1..Len(edges) :
                    IF EdgeRef(edges[i]) = movingEdge
                    THEN t.edges[i] = [edges[i] EXCEPT
                            !.latlng = containerPointToLatLng(point, panePos)]
                    ELSE t.edges[i] = edges[i]
                /\ \A polygonId \in 1..Len(polygons) :
                    polygonId # movingEdge.polygonId =>
                        t.polygons[polygonId] = polygons[polygonId]
                /\ t.mode = mode
                /\ t.latLngs = latLngs
                /\ t.creating = creating
                /\ t.notified = <<>>
                /\ ~t.raised

\* a handle of one of two polygons is grabbed and the pointer is about to move it
\* away from where it is, to a place where a sibling is not
C18_Witness ==
    /\ map
    /\ Cardinality(LivePolygons(Editor)) = 2
    /\ \E i \in 1..Len(edges) :
        /\ EdgeRef(edges[i]) = movingEdge
        /\ \E point \in DragPixels \cup TracePixels :
            /\ edges[i].latlng # containerPointToLatLng(point, panePos)
            /\ \E j \in 1..Len(edges) \ {i} :
                /\ edges[j].polygonId = movingEdge.polygonId
                /\ edges[j].latlng # containerPointToLatLng(point, panePos)

\* C19: after every pointer-move while a handle is grabbed, the points of the
\* polygon of the grabbed handle are the current positions of all its handles in
\* vertex order, as many as it has handles, and that polygon was redrawn exactly
\* once by the move
C19_DragRebuildsPolygon ==
    (map /\ movingEdge # NoEdge) =>
        \A point \in DragPixels \cup TracePixels :
            LET t == onMouseMove(Editor, point)
                polygonId == movingEdge.polygonId
                count == Len(HandlesOf(t, polygonId))
            IN  /\ Len(t.polygons[polygonId].latlngs) = count
                /\ \A k \in 1..count :
                    t.polygons[polygonId].latlngs[k] = PositionOf(t, polygonId, k - 1)
                /\ t.redrawn = <<polygonId>>

\* a grabbed handle is about to be moved away from where it is, so that the
\* points of its polygon have to change
C19_Witness ==
    /\ map
    /\ \E i \in 1..Len(edges), point \in DragPixels \cup TracePixels :
        /\ EdgeRef(edges[i]) = movingEdge
        /\ edges[i].index > 0
        /\ polygons[movingEdge.polygonId].latlngs[edges[i].index + 1] = edges[i].latlng
        /\ edges[i].latlng # containerPointToLatLng(point, panePos)

\* this.edges is a row of runs, one per polygon: a run starts with index 0, goes
\* up by one and ends with index length - 1, and no polygon has two runs
HandlesInRuns ==
    /\ \A i \in 1..Len(edges) :
        /\ IF i = 1 \/ edges[i - 1].polygonId # edges[i].polygonId
           THEN edges[i].index = 0
           ELSE edges[i].index = edges[i - 1].index + 1
        /\ (i = Len(edges) \/ edges[i + 1].polygonId # edges[i].polygonId) =>
                edges[i].index = edges[i].length - 1
    /\ \A i, j \in 1..Len(edges) :
        (i < j /\ edges[i].polygonId = edges[j].polygonId) =>
            \A k \in i..j : edges[k].polygonId = edges[i].polygonId

RefsOf(s) == [i \in 1..Len(s.edges) |-> EdgeRef(s.edges[i])]

\* the handles that are in this.edges before and after a step are in the same
\* order before and after
HandlesKeepOrder ==
    LET before == RefsOf(Editor)
        after == RefsOf(Editor')
        In(refs) == {refs[i] : i \in 1..Len(refs)}
    IN  SelectSeq(before, LAMBDA ref : ref \in In(after))
            = SelectSeq(after, LAMBDA ref : ref \in In(before))

\* C20: in every reachable state the handles of each polygon are one contiguous
\* run of this.edges with the indices 0..length-1 in increasing order, and no
\* step changes the order of the handles that stay in this.edges
C20_HandlesInContiguousRuns == [](HandlesInRuns) /\ [][HandlesKeepOrder]_vars

\* the first of two polygons has been destroyed and the run of the second, with
\* one of its handles dragged, is what is left of this.edges
C20_Witness ==
    /\ Len(polygons) = 2
    /\ ~polygons[1].container
    /\ polygons[2].container
    /\ Len(edges) >= 3
    /\ edges[1].polygonId = 2
    /\ \E i \in 1..Len(edges) : edges[i].latlng # polygons[2].latlngs[1]

C24_GrabbedHandleIsLive ==
    (map /\ movingEdge # NoEdge) =>
        /\ \E i \in 1..Len(edges) : EdgeRef(edges[i]) = movingEdge
        /\ movingEdge.polygonId \in LivePolygons(Editor)
        /\ \A point \in DragPixels :
            LET t == onMouseMove(Editor, point)
            IN  \A polygonId \in 1..Len(polygons) \ LivePolygons(Editor) :
                    t.polygons[polygonId] = polygons[polygonId]

\* a call of the completion that keeps to its contract: an L.DivIcon or nothing
\* as second argument, and L.LatLng entries only
ValidMarkers(markers, divIcon) ==
    /\ divIcon \in {"undefined", "DivIcon"}
    /\ \A i \in 1..Len(markers) : markers[i].isLatLng

\* C21: however many times and however late the completion is called, after each
\* call the marker layer holds exactly the positions of the most recent valid
\* call: a valid call clears the layer and adds its own markers, an empty or
\* missing array leaves it empty, and a call that is a usage error leaves the
\* markers of the last valid call in place
C21_LayerShowsLastValidMarkers ==
    map =>
        \A markers \in MarkerArrays, divIcon \in DivIcons :
            LET t == setMarkers(Editor, markers, divIcon)
            IN  IF ValidMarkers(markers, divIcon)
                THEN /\ t.markerLayer = [i \in 1..Len(markers) |-> markers[i].at]
                     /\ ~t.raised
                ELSE /\ t.markerLayer = markerLayer
                     /\ t.raised

\* C22: two editors are independent: whatever is created or edited through the
\* first, the second, through which nothing was created, has no handle in its
\* registry, reports no polygon when it notifies the boundaries, and with
\* multiplePolygons off still begins a trace on a pointer-down in create mode
C22_InstancesIndependent ==
    \A opts \in SecondOptions :
        LET other == SecondInstance(opts)
        IN  /\ other.edges = <<>>
            /\ notifyBoundaries(other).notified = <<0>>
            /\ \A point \in DownPixels :
                onMouseDown(setMode(other, CREATE), LEFT_CLICK, point).creating

====
